---- MODULE Spec2Model ----
(***************************************************************************)
(* Model of the memory-map elaboration of vhdl_doc                         *)
(* (src/src/memory_map/schema.rs): the Field tree, the decoding of default *)
(* values, and Field::render / Field::render_recursive with its four leaf  *)
(* routines.                                                               *)
(*                                                                         *)
(* The tree is held in pre-order: fields[i] is the i-th field visited by   *)
(* render_recursive, and its depth gives its parent (the last field before *)
(* it that is one level up).  One Visit action is one call of              *)
(* render_recursive on one field; an Err or a panic ends the traversal, as *)
(* the `?` of the Set arm and unwinding do.                                *)
(*                                                                         *)
(* Machine integers keep a width.  u64/i64 are scaled to U64Bits bits and  *)
(* i32 to I32Bits bits; arithmetic that overflows either panics (a build   *)
(* with overflow checks, cargo's dev profile) or wraps (the release        *)
(* profile): overflow_checks is chosen with the document.                  *)
(***************************************************************************)
EXTENDS Integers, Sequences, FiniteSets, TLC

\* ---------------------------------------------------------------- bounds
MaxFields == 3      \* fields in one document
MaxRenders == 2     \* calls of Field::render on one document
U64Bits == 24       \* width that stands for the 64 bits of u64 / i64
I32Bits == 6        \* width that stands for the 32 bits of i32
FracBits == 4       \* an f64 value v is held as the integer v * 2^FracBits
MaxStr == 4         \* characters in a string handed to hex_str_or_unsigned

U64Max == 2^U64Bits - 1
I64Max == 2^(U64Bits - 1) - 1
I64Min == -(2^(U64Bits - 1))
I32Max == 2^(I32Bits - 1) - 1
I32Min == -(2^(I32Bits - 1))

\* Option<u64>::None, and Option<Access>::None / Option<Value>::None
None == -1
NoAccess == "None"
NoValue == [tag |-> "None", v |-> 0]
\* no input is being decoded, and hex_str_or_unsigned has not returned
NoInput == [kind |-> "none", n |-> 0, s |-> <<>>]
NotCalled == [tag |-> "NotCalled", v |-> 0]

\* ------------------------------------------------- machine arithmetic
\* u64 result of an operation whose mathematical result is x
wrap_u64(x) == x % (2^U64Bits)
\* i64 (two's complement) result of an operation whose mathematical result is x
wrap_i64(x) == ((x - I64Min) % (2^U64Bits)) + I64Min
\* i32 (two's complement) result of an operation whose mathematical result is x
wrap_i32(x) == ((x - I32Min) % (2^I32Bits)) + I32Min
fits_u64(x) == x >= 0 /\ x <= U64Max
fits_i64(x) == x >= I64Min /\ x <= I64Max
fits_i32(x) == x >= I32Min /\ x <= I32Max

Max2(a, b) == IF a >= b THEN a ELSE b
\* ((n as f64) / 8f64).ceil()
CeilDiv8(n) == IF n >= 0 THEN (n + 7) \div 8 ELSE -((-n) \div 8)

\* ------------------------------------------------------------ data model
Accesses == {"Read", "Write", "ReadWrite"}

\* A default value as it stands in the input document (JSON / TOML scalar):
\* a string (its byte length, and whether it is ASCII), an integer, or a float.
RawStr(len, ascii) == [kind |-> "str", n |-> len, ascii |-> ascii]
RawInt(n) == [kind |-> "int", n |-> n, ascii |-> TRUE]
RawFloat(n) == [kind |-> "float", n |-> n, ascii |-> TRUE]
RawAbsent == [kind |-> "absent", n |-> 0, ascii |-> TRUE]

\* #[serde(untagged)] enum Value: the variants are tried in declaration order
\* (String, Unsigned(u64), Signed(i64), Float(f64)) and the first that accepts
\* the scalar is taken.  A String holds its byte length, a Float its value
\* times 2^FracBits.
DecodeValue(raw) ==
  CASE raw.kind = "absent" -> NoValue
    [] raw.kind = "str" /\ raw.ascii -> [tag |-> "String", v |-> raw.n]
    [] raw.kind = "int" /\ fits_u64(raw.n) -> [tag |-> "Unsigned", v |-> raw.n]
    [] raw.kind = "int" /\ fits_i64(raw.n) -> [tag |-> "Signed", v |-> raw.n]
    [] raw.kind = "float" -> [tag |-> "Float", v |-> raw.n]
    [] OTHER -> [tag |-> "Error", v |-> 0]

\* enum FieldType, with the payload of each variant
TySet(c) == [field_type |-> "Set", length |-> 0, high |-> 0, low |-> 0, contains |-> c]
TyLen(t, len) == [field_type |-> t, length |-> len, high |-> 0, low |-> 0, contains |-> "None"]
TyFixed(t, hi, lo) == [field_type |-> t, length |-> 0, high |-> hi, low |-> lo, contains |-> "None"]

\* struct Field (name, unit, min, max and range take no part in render).
\* contains is "None", "One" (OneOrMoreField::One) or "More"; the children of
\* a Set are the fields that follow it one level deeper.
MkField(ty, addr, acc, val) ==
  [depth |-> 0, field_type |-> ty.field_type, length |-> ty.length,
   high |-> ty.high, low |-> ty.low, contains |-> ty.contains,
   address |-> addr, access |-> acc, value |-> val]

\* struct Protocol
MkProtocol(amax, dmin) == [address_max |-> amax, data_min |-> dmin]

IsSet(f) == f.field_type = "Set"
\* the field types whose arm of render_recursive calls a leaf routine
Addressed(f) == f.field_type \in {"String", "Unsigned", "Signed", "UFixed"}

\* ------------------------------------------------- documents (pre-order)
\* among the first n fields of d, the last one at depth k - 1: the parent of a
\* field at depth k that comes next
ParentAt(d, n, k) ==
  CHOOSE j \in 1..n :
    /\ d[j].depth = k - 1
    /\ \A i \in (j + 1)..n : d[i].depth >= k
\* the parent of field i (i > 1)
Parent(d, i) == ParentAt(d, i - 1, d[i].depth)

\* a field at depth k may follow the fields of d: its parent is a Set with
\* contains, and a OneOrMoreField::One has no child yet
CanAppend(d, k) ==
  /\ k >= 1
  /\ k <= d[Len(d)].depth + 1
  /\ LET p == ParentAt(d, Len(d), k)
     IN /\ IsSet(d[p])
        /\ d[p].contains # "None"
        /\ (d[p].contains = "One" => p = Len(d))

\* every OneOrMoreField::One holds its one field
WellFormed(d) ==
  \A p \in 1..Len(d) :
    (IsSet(d[p]) /\ d[p].contains = "One")
      => (p < Len(d) /\ d[p + 1].depth = d[p].depth + 1)

RECURSIVE Trees(_, _, _)
\* the pre-order documents of exactly n fields, the root from roots and the
\* others from menu
Trees(roots, menu, n) ==
  IF n = 1 THEN {<<f>> : f \in roots}
  ELSE UNION {{Append(d, [f EXCEPT !.depth = k]) :
                 f \in menu, k \in {j \in 1..(n - 1) : CanAppend(d, j)}} :
              d \in Trees(roots, menu, n - 1)}

\* the documents of at most n fields
Documents(roots, menu, n) ==
  UNION {{d \in Trees(roots, menu, m) : WellFormed(d)} : m \in 1..n}

\* ----------------------------------------------------------------- state
VARIABLES
  fields,           \* the document's Field tree, in pre-order
  protocol,         \* the document's Protocol
  overflow_checks,  \* TRUE: integer overflow panics; FALSE: it wraps
  result,           \* "Idle", "Running", or how render ended: "Ok", "Err", "Panic"
  error,            \* the kind of the anyhow::Error returned, or "None"
  pc,               \* the field render_recursive visits next
  running_address,  \* the u64 behind &mut running_address
  parent_access,    \* the Access behind &parent_access
  renders,          \* calls of render made so far
  previous,         \* how the call of render before the current one ended
  before,           \* the tree as it was when the current render was called
  log,              \* the leaf visits of the current render that computed a footprint
  deserializer,     \* the input handed to hex_str_or_unsigned
  hex_result        \* the Result<u64, D::Error> of hex_str_or_unsigned

\* the state of the decode of one address, untouched by render
hex_vars == <<deserializer, hex_result>>

vars == <<fields, protocol, overflow_checks, result, error, pc, running_address,
          parent_access, renders, previous, before, log, hex_vars>>

\* ------------------------------------------------------- leaf routines
\* what one call of a leaf routine leaves behind: its Result, the field as
\* mutated, the cursor, and the locals my_address and bytes (None, 0 when the
\* routine returned before computing them)
Ret(res, err, f, ra, my, by) ==
  [result |-> res, error |-> err, field |-> f, running_address |-> ra,
   my_address |-> my, bytes |-> by]

\* "Render access field"
resolve_access(f, pa) ==
  IF f.access = NoAccess THEN [f EXCEPT !.access = pa] ELSE f

\* resolve_address with an explicit address taken as an offset from the cursor
resolve_address_offset(f, ra) ==
  [f EXCEPT !.address = IF f.address # None THEN wrap_u64(f.address + ra) ELSE ra]

\* "Update the addresses": let my_address = ...; the result's address is my_address
resolve_address(f, ra) ==
  IF f.address # None THEN f ELSE [f EXCEPT !.address = ra]

\* the overflow check and the advance of the cursor, f.address being my_address
advance(f, bytes, proto, oc, ra) ==
  LET my_address == f.address
      sum == my_address + bytes
  IN IF ~fits_u64(sum) /\ oc
       THEN Ret("Panic", "None", f, ra, my_address, bytes)
     ELSE IF wrap_u64(sum) > proto.address_max
       THEN Ret("Err", "AddressOverflow", f, ra, my_address, bytes)
     ELSE Ret("Ok", "None", f, wrap_u64(sum), my_address, bytes)

\* "Validate the value and length" of each routine: "Ok", the kind of the
\* error returned, or "Panic"
string_value_check(f) ==
  IF f.value.tag = "None" THEN "Ok"
  ELSE IF f.value.tag = "String"
    THEN (IF f.value.v > f.length THEN "ValueRange" ELSE "Ok")
  ELSE "ValueType"

unsigned_value_check(f, oc) ==
  IF f.value.tag = "None" THEN "Ok"
  ELSE IF f.value.tag = "Unsigned"
    THEN LET pow == 2^f.length                       \* 2u64.pow(*length)
             limit == wrap_u64(wrap_u64(pow) - 1)
         IN IF ~fits_u64(pow) /\ oc THEN "Panic"
            ELSE IF f.value.v > limit THEN "ValueRange" ELSE "Ok"
  ELSE "ValueType"

signed_value_check(f, oc) ==
  IF f.value.tag = "None" THEN "Ok"
  ELSE IF f.value.tag = "Signed"
    THEN LET underflow == f.length = 0               \* *length - 1 in u32
             \* 2i64.pow(*length - 1); 2^(2^32 - 1) wraps to 0
             pow == IF underflow THEN 2^U64Bits ELSE 2^(f.length - 1)
             upper == wrap_i64(wrap_i64(pow) - 1)
             lower == wrap_i64(-wrap_i64(pow))
         IN IF (underflow \/ ~fits_i64(pow)) /\ oc THEN "Panic"
            ELSE IF f.value.v > upper \/ f.value.v < lower THEN "ValueRange"
            ELSE "Ok"
  ELSE "ValueType"

\* 2f64.powf(e) in units of 2^-FracBits (exact for e >= -FracBits)
powf_scaled(e) == IF e + FracBits >= 0 THEN 2^(e + FracBits) ELSE 0

ufixed_value_check(f) ==
  IF f.value.tag = "None" THEN "Ok"
  ELSE IF f.value.tag = "Float"
    THEN LET max == powf_scaled(f.high) - powf_scaled(f.low)
         IN IF f.value.v > max THEN "ValueRange" ELSE "Ok"
  ELSE "ValueType"

\* int_bytes without the `if bytes < protocol.data_min`
int_bytes_unclamped(length, proto) == CeilDiv8(length)

\* bytes of Unsigned and Signed: ceil(length / 8), raised to data_min
int_bytes(length, proto) ==
  LET bytes == CeilDiv8(length)
  IN IF bytes < proto.data_min THEN proto.data_min ELSE bytes

\* let length = *high - *low + 1 (i32): its value, and whether it overflowed
ufixed_length(f) ==
  LET diff == f.high - f.low
      len == wrap_i32(diff) + 1
  IN [val |-> wrap_i32(len), overflow |-> ~fits_i32(diff) \/ ~fits_i32(len)]

\* bytes of UFixed: ceil(length / 8) as u64 (a negative float casts to 0),
\* raised to data_min
ufixed_bytes(length, proto) ==
  LET bytes == Max2(CeilDiv8(length), 0)
  IN IF bytes < proto.data_min THEN proto.data_min ELSE bytes

render_field_type_string(f, proto, oc, pa, ra) ==
  LET check == string_value_check(f)
  IN IF check # "Ok" THEN Ret("Err", check, f, ra, None, 0)
     ELSE advance(resolve_address(resolve_access(f, pa), ra), f.length, proto, oc, ra)

render_field_type_unsigned(f, proto, oc, pa, ra) ==
  LET check == unsigned_value_check(f, oc)
  IN IF check = "Panic" THEN Ret("Panic", "None", f, ra, None, 0)
     ELSE IF check # "Ok" THEN Ret("Err", check, f, ra, None, 0)
     ELSE advance(resolve_address(resolve_access(f, pa), ra),
                  int_bytes(f.length, proto), proto, oc, ra)

render_field_type_signed(f, proto, oc, pa, ra) ==
  LET check == signed_value_check(f, oc)
  IN IF check = "Panic" THEN Ret("Panic", "None", f, ra, None, 0)
     ELSE IF check # "Ok" THEN Ret("Err", check, f, ra, None, 0)
     ELSE advance(resolve_address(resolve_access(f, pa), ra),
                  int_bytes(f.length, proto), proto, oc, ra)

render_field_type_ufixed(f, proto, oc, pa, ra) ==
  LET check == ufixed_value_check(f)
      g == resolve_address(resolve_access(f, pa), ra)
      length == ufixed_length(f)
  IN IF check # "Ok" THEN Ret("Err", check, f, ra, None, 0)
     ELSE IF length.overflow /\ oc THEN Ret("Panic", "None", g, ra, None, 0)
     ELSE advance(g, ufixed_bytes(length.val, proto), proto, oc, ra)

\* --------------------------------------------------------------- inputs
\* Documents are drawn from five families; each is a product of small menus.
\* A field's value is what DecodeValue makes of the document's scalar, and a
\* document one of whose values does not decode is never loaded.
Menu(types, addrs, accs, raws) ==
  {MkField(ty, a, c, DecodeValue(r)) :
     ty \in types, a \in addrs, c \in accs,
     r \in {x \in raws : DecodeValue(x).tag # "Error"}}

IntLengths == {1, 4, 12, U64Bits - 1, U64Bits, U64Bits + 1}
RawValues ==
  {RawAbsent, RawStr(1, TRUE), RawStr(3, TRUE), RawStr(1, FALSE),
   RawFloat(2^(FracBits - 1)), RawFloat(2^(3 + FracBits) - 1), RawFloat(2^(3 + FracBits))}
  \cup {RawInt(n) : n \in {I64Min - 1, I64Min, -9, -8, -2, -1, 0, 1, 2, 7, 8, 15, 16,
                           I64Max, I64Max + 1, U64Max}}

\* one leaf with a default value
ValueInputs ==
  LET types == {TyLen("String", 2), TyLen("Enum", 8), TyLen("Bitfield", 8),
                TyFixed("UFixed", 3, -4), TyFixed("SFixed", 3, -4)}
                \cup {TyLen(t, n) : t \in {"Unsigned", "Signed"}, n \in IntLengths}
  IN {[fields |-> <<f>>, protocol |-> MkProtocol(2^7, 1)] :
        f \in Menu(types, {None}, {NoAccess}, RawValues)}

\* one leaf, its width and address up to the ends of the integer types
WidthInputs ==
  LET types == {TyLen("String", 1), TyLen("String", 2), TyLen("String", U64Max),
                TyLen("Unsigned", 1), TyLen("Unsigned", 12), TyLen("Unsigned", 24),
                TyLen("Signed", 12), TyLen("Signed", 24),
                TyFixed("UFixed", 3, -4), TyFixed("UFixed", 11, -4),
                TyFixed("UFixed", 0, 3), TyFixed("UFixed", I32Max, 0),
                TyFixed("UFixed", I32Max, -1), TyFixed("SFixed", 11, -4)}
  IN {[fields |-> <<f>>, protocol |-> MkProtocol(amax, dmin)] :
        f \in Menu(types, {None, 0, U64Max - 1, U64Max}, {NoAccess}, {RawAbsent}),
        amax \in {1, 10, U64Max}, dmin \in {1, 2}}

\* a root Set of two fields of any type
PairInputs ==
  LET types == {TySet("None"), TyLen("String", 2), TyLen("Enum", 8),
                TyLen("Bitfield", 8), TyLen("Unsigned", 12), TyLen("Signed", 8),
                TyFixed("UFixed", 3, -4), TyFixed("SFixed", 3, -4)}
      roots == Menu({TySet("More")}, {None, 8}, {NoAccess}, {RawAbsent})
      menu == Menu(types, {None, 4, U64Max}, {NoAccess}, {RawAbsent})
  IN {[fields |-> <<r, [a EXCEPT !.depth = 1], [b EXCEPT !.depth = 1]>>, protocol |-> p] :
        r \in roots, a \in menu, b \in menu,
        p \in {MkProtocol(5, 1), MkProtocol(15, 2)}}

\* trees of Sets and leaves with and without explicit addresses
AddressInputs ==
  LET types == {TySet("None"), TySet("One"), TySet("More"),
                TyLen("String", 2), TyLen("Unsigned", 12)}
      menu == Menu(types, {None, 4}, {NoAccess}, {RawAbsent})
  IN {[fields |-> d, protocol |-> p] :
        d \in Documents(menu, menu, MaxFields),
        p \in {MkProtocol(7, 1), MkProtocol(15, 2)}}

\* trees of Sets and leaves with and without explicit access
AccessInputs ==
  LET types == {TySet("One"), TySet("More"), TyLen("Unsigned", 8), TyLen("Enum", 8)}
      menu == Menu(types, {None}, {NoAccess, "Write", "ReadWrite"}, {RawAbsent})
  IN {[fields |-> d, protocol |-> MkProtocol(15, 1)] :
        d \in Documents(menu, menu, MaxFields)}

Inputs == ValueInputs \cup WidthInputs \cup PairInputs \cup AddressInputs \cup AccessInputs

\* ----------------------------------------------------------------- Init
\* a document has been loaded; render has not been called
Init ==
  /\ \E inp \in Inputs : fields = inp.fields /\ protocol = inp.protocol
  /\ overflow_checks \in BOOLEAN
  /\ result = "Idle"
  /\ error = "None"
  /\ pc = 0
  /\ running_address = 0
  /\ parent_access = "Read"
  /\ renders = 0
  /\ previous = "Idle"
  /\ before = fields
  /\ log = <<>>
  /\ deserializer = NoInput
  /\ hex_result = NotCalled

\* -------------------------------------------------------------- actions
\* Field::render on the root: the cursor and the inherited access start from
\* the root's own address and access
Render ==
  /\ result \in {"Idle", "Ok", "Err"}
  /\ renders < MaxRenders
  /\ parent_access' = IF fields[1].access = NoAccess THEN "Read" ELSE fields[1].access
  /\ running_address' = IF fields[1].address = None THEN 0 ELSE fields[1].address
  /\ pc' = 1
  /\ result' = "Running"
  /\ error' = "None"
  /\ renders' = renders + 1
  /\ previous' = result
  /\ before' = fields
  /\ log' = <<>>
  /\ UNCHANGED <<fields, protocol, overflow_checks, hex_vars>>

Visiting(t) ==
  /\ result = "Running"
  /\ pc <= Len(fields)
  /\ fields[pc].field_type = t

\* render_recursive returns Ok(()) without touching the field or the cursor
Pass ==
  /\ pc' = pc + 1
  /\ UNCHANGED <<fields, protocol, overflow_checks, result, error,
                 running_address, parent_access, renders, previous, before, log,
                 hex_vars>>

\* render_recursive after a leaf routine returned out: Ok goes on to the next
\* field in pre-order, Err is handed up by every `?` and ends render
Leaf(out) ==
  /\ fields' = [fields EXCEPT ![pc] = out.field]
  /\ running_address' = out.running_address
  /\ result' = IF out.result = "Ok" THEN "Running" ELSE out.result
  /\ error' = out.error
  /\ pc' = IF out.result = "Ok" THEN pc + 1 ELSE pc
  /\ log' = IF out.my_address = None THEN log
            ELSE Append(log, [idx |-> pc, cursor |-> running_address,
                              my_address |-> out.my_address, bytes |-> out.bytes,
                              result |-> out.result])
  /\ UNCHANGED <<protocol, overflow_checks, parent_access, renders, previous, before,
                 hex_vars>>

\* FieldType::Set: the children follow in pre-order with the same
\* parent_access and running_address; no contains is a schema error
VisitSet ==
  /\ Visiting("Set")
  /\ IF fields[pc].contains # "None"
       THEN Pass
       ELSE /\ result' = "Err"
            /\ error' = "Schema"
            /\ UNCHANGED <<fields, protocol, overflow_checks, pc, running_address,
                           parent_access, renders, previous, before, log, hex_vars>>

VisitString ==
  /\ Visiting("String")
  /\ Leaf(render_field_type_string(fields[pc], protocol, overflow_checks,
                                   parent_access, running_address))

VisitEnum == Visiting("Enum") /\ Pass

VisitBitfield == Visiting("Bitfield") /\ Pass

VisitUnsigned ==
  /\ Visiting("Unsigned")
  /\ Leaf(render_field_type_unsigned(fields[pc], protocol, overflow_checks,
                                     parent_access, running_address))

VisitSigned ==
  /\ Visiting("Signed")
  /\ Leaf(render_field_type_signed(fields[pc], protocol, overflow_checks,
                                   parent_access, running_address))

VisitUFixed ==
  /\ Visiting("UFixed")
  /\ Leaf(render_field_type_ufixed(fields[pc], protocol, overflow_checks,
                                   parent_access, running_address))

VisitSFixed == Visiting("SFixed") /\ Pass

\* the outermost render_recursive returns Ok(()): every field has been visited
Return ==
  /\ result = "Running"
  /\ pc > Len(fields)
  /\ result' = "Ok"
  /\ UNCHANGED <<fields, protocol, overflow_checks, error, pc, running_address,
                 parent_access, renders, previous, before, log, hex_vars>>

Next ==
  \/ Render
  \/ VisitSet
  \/ VisitString
  \/ VisitEnum
  \/ VisitBitfield
  \/ VisitUnsigned
  \/ VisitSigned
  \/ VisitUFixed
  \/ VisitSFixed
  \/ Return

Spec == Init /\ [][Next]_vars

\* ------------------------------------------------ hex_str_or_unsigned
\* The decode of one addressMax / address.  deserialize_any hands the visitor
\* what the input holds: an i64, a u64, or a string (a sequence of characters).
HexDigits == {"0", "1", "2", "3", "4", "5", "6", "7", "8", "9",
              "a", "b", "c", "d", "e", "f", "A", "B", "C", "D", "E", "F"}

\* char::to_digit(16) of a hex digit
to_digit(c) ==
  CASE c \in {"0", "1", "2", "3", "4", "5", "6", "7", "8", "9"} ->
         CHOOSE n \in 0..9 : ToString(n) = c
    [] c \in {"a", "A"} -> 10
    [] c \in {"b", "B"} -> 11
    [] c \in {"c", "C"} -> 12
    [] c \in {"d", "D"} -> 13
    [] c \in {"e", "E"} -> 14
    [] c \in {"f", "F"} -> 15

HexOk(n) == [tag |-> "Ok", v |-> n]
HexErr == [tag |-> "Err", v |-> 0]

\* val.strip_prefix("0x"): whether the prefix is there, and the rest
strip_prefix(val) ==
  IF Len(val) >= 2 /\ val[1] = "0" /\ val[2] = "x"
    THEN [some |-> TRUE, stripped |-> SubSeq(val, 3, Len(val))]
    ELSE [some |-> FALSE, stripped |-> <<>>]

\* stripped.to_string().replace("_", "")
replace_underscore(s) == SelectSeq(s, LAMBDA c : c # "_")

RECURSIVE accumulate(_, _)
\* the digit loop of from_str_radix: result = result * 16 + digit, an
\* invalid digit or an overflow of u64 ending it with an error
accumulate(digits, acc) ==
  IF digits = <<>> THEN HexOk(acc)
  ELSE IF Head(digits) \notin HexDigits THEN HexErr
  ELSE LET next == acc * 16 + to_digit(Head(digits))
       IN IF ~fits_u64(next) THEN HexErr ELSE accumulate(Tail(digits), next)

\* u64::from_str_radix(src, 16): an empty string and a lone sign are errors,
\* one leading '+' is skipped, '-' is no sign of an unsigned type
from_str_radix(src) ==
  IF src = <<>> THEN HexErr
  ELSE IF src = <<"+">> \/ src = <<"-">> THEN HexErr
  ELSE IF Head(src) = "+" THEN accumulate(Tail(src), 0)
  ELSE accumulate(src, 0)

\* HexVisitor::visit_i64
visit_i64_value(val) == IF val >= 0 THEN HexOk(val) ELSE HexErr

\* HexVisitor::visit_u64
visit_u64_value(val) == HexOk(val)

\* HexVisitor::visit_str
visit_str_value(val) ==
  LET prefix == strip_prefix(val)
  IN IF prefix.some THEN from_str_radix(replace_underscore(prefix.stripped))
     ELSE HexErr

\* what a deserializer holds
HexInt(k, n) == [kind |-> k, n |-> n, s |-> <<>>]
HexStr(s) == [kind |-> "str", n |-> 0, s |-> s]

\* the characters of the short strings
Chars == {"0", "x", "f", "A", "_", "+", "-", "g"}
\* the characters that follow "0x" in the long strings
LongChars == {"0", "1", "f", "_"}
\* the most hex digits a u64 holds, and one more
MaxDigits == U64Bits \div 4 + 1

HexInputs ==
  {HexInt("i64", n) : n \in {I64Min, -255, -2, -1, 0, 1, 2, 255, I64Max}}
  \cup {HexInt("u64", n) : n \in {0, 1, 255, I64Max, I64Max + 1, U64Max}}
  \cup {HexStr(s) : s \in UNION {[1..n -> Chars] : n \in 0..MaxStr}}
  \cup {HexStr(<<"0", "x">> \o s) :
          s \in UNION {[1..n -> LongChars] : n \in 1..MaxDigits}}

\* a deserializer holds an input; no document has been decoded yet
HexInit ==
  /\ deserializer \in HexInputs
  /\ hex_result = NotCalled
  /\ fields = <<>>
  /\ protocol = MkProtocol(0, 0)
  /\ overflow_checks = FALSE
  /\ result = "Idle"
  /\ error = "None"
  /\ pc = 0
  /\ running_address = 0
  /\ parent_access = "Read"
  /\ renders = 0
  /\ previous = "Idle"
  /\ before = <<>>
  /\ log = <<>>

\* deserializer.deserialize_any(HexVisitor) calls one method of the visitor
Visit(k, out) ==
  /\ hex_result = NotCalled
  /\ deserializer.kind = k
  /\ hex_result' = out
  /\ UNCHANGED <<fields, protocol, overflow_checks, result, error, pc,
                 running_address, parent_access, renders, previous, before, log,
                 deserializer>>

visit_i64 == Visit("i64", visit_i64_value(deserializer.n))

visit_u64 == Visit("u64", visit_u64_value(deserializer.n))

visit_str == Visit("str", visit_str_value(deserializer.s))

HexNext ==
  \/ visit_i64
  \/ visit_u64
  \/ visit_str

HexSpec == HexInit /\ [][HexNext]_vars

\* ------------------------------------------------ terms of the claims
Finished == result \in {"Ok", "Err", "Panic"}
Fields == 1..Len(fields)

\* the footprint the specification gives a leaf, over the integers
Footprint(f, proto) ==
  CASE f.field_type = "String" -> f.length
    [] f.field_type \in {"Unsigned", "Signed"} ->
         Max2(CeilDiv8(f.length), proto.data_min)
    [] f.field_type \in {"UFixed", "SFixed"} ->
         Max2(CeilDiv8(f.high - f.low + 1), proto.data_min)
    [] OTHER -> 0

\* the cursor the specification gives for the visit of field i: the root's
\* explicit address (0 if none) when no leaf was processed before i, and else
\* the resolved address of the last leaf processed before i plus its footprint
CursorAt(i) ==
  LET done == {j \in 1..(i - 1) : Addressed(fields[j])}
  IN IF done = {}
       THEN (IF before[1].address = None THEN 0 ELSE before[1].address)
       ELSE LET j == CHOOSE k \in done : \A m \in done : m <= k
            IN fields[j].address + Footprint(fields[j], protocol)

\* C1: after a successful render, every String, Unsigned, Signed or UFixed
\* field that had no explicit address has the address CursorAt gives: the
\* cursor that starts at the root's address and after each processed leaf is
\* that leaf's resolved address plus its footprint.
C1_AddressIsCursor ==
  result = "Ok" =>
    \A i \in Fields :
      (Addressed(fields[i]) /\ before[i].address = None)
        => fields[i].address = CursorAt(i)

\* C2: render returns Ok only if resolved_address + footprint <= addressMax
\* for every leaf it visited, and a visited leaf with resolved_address +
\* footprint > addressMax makes the call return an address-overflow error.
C2_NoSilentOverflow ==
  \A k \in 1..Len(log) :
    LET e == log[k]
        end == e.my_address + Footprint(fields[e.idx], protocol)
    IN /\ (result = "Ok" => end <= protocol.address_max)
       /\ (end > protocol.address_max
             => (result = "Err" /\ error = "AddressOverflow"))

\* C3: the footprint by which a successfully processed leaf advances the
\* cursor is length for String, max(ceil(length/8), dataMin) for Unsigned and
\* Signed, and max(ceil((high-low+1)/8), dataMin) for UFixed.
C3_FootprintFormula ==
  \A k \in 1..Len(log) :
    log[k].result = "Ok"
      => log[k].bytes = Footprint(fields[log[k].idx], protocol)

RECURSIVE NearestAccess(_, _)
\* the access of the nearest ancestor of field i of d that specifies one, or
\* Read
NearestAccess(d, i) ==
  IF i = 1 THEN "Read"
  ELSE LET p == Parent(d, i)
       IN IF d[p].access # NoAccess THEN d[p].access ELSE NearestAccess(d, p)

\* C5: after a successful render a field that had an explicit access keeps
\* it, and a field that had none has the access of its nearest ancestor that
\* specified one (Read if none did).  Stated of the fields a leaf routine
\* visits, the only ones whose access render writes.
C5_NearestAncestorAccess ==
  result = "Ok" =>
    \A i \in Fields :
      Addressed(fields[i]) =>
        fields[i].access =
          (IF before[i].access # NoAccess THEN before[i].access
           ELSE NearestAccess(before, i))

\* C6: after a successful render every field of the tree, whatever its type,
\* has an address and an access.
C6_EveryFieldResolved ==
  result = "Ok" =>
    \A i \in Fields :
      fields[i].address # None /\ fields[i].access # NoAccess

\* C7: for a length in 1..64, an Unsigned(length) field with an unsigned
\* default v is rejected with a value-range error exactly when
\* v > 2^length - 1, and a Signed(length) field with a signed default v
\* exactly when v < -2^(length-1) or v > 2^(length-1) - 1; otherwise the value
\* is accepted (Unsigned(64) accepts every u64).  Stated of documents of one
\* field, where nothing else can end the call.
C7_MathematicalRange ==
  (Finished /\ Len(fields) = 1) =>
    LET f == fields[1]
        v == f.value.v
        rejected == result = "Err" /\ error = "ValueRange"
        out == IF f.field_type = "Unsigned"
                 THEN v > 2^f.length - 1
                 ELSE v < -(2^(f.length - 1)) \/ v > 2^(f.length - 1) - 1
    IN (/\ f.field_type \in {"Unsigned", "Signed"}
        /\ f.value.tag = f.field_type
        /\ f.length \in 1..U64Bits)
         => /\ (out => rejected)
            /\ (~out => result = "Ok")

TypeFamily(f) ==
  CASE f.field_type = "String" -> "string"
    [] f.field_type \in {"Unsigned", "Signed"} -> "integer"
    [] f.field_type \in {"UFixed", "SFixed"} -> "float"
    [] OTHER -> "none"

ValueFamily(val) ==
  CASE val.tag = "String" -> "string"
    [] val.tag \in {"Unsigned", "Signed"} -> "integer"
    [] val.tag = "Float" -> "float"
    [] OTHER -> "none"

\* C8: a default value is a value-type-mismatch error exactly when its family
\* (string, integer, float) differs from that of the field's type; a
\* Signed(length) field whose default is a non-negative integer within the
\* signed range elaborates without error.  Stated of documents of one field.
C8_FamilyCheck ==
  (Finished /\ Len(fields) = 1) =>
    LET f == fields[1]
        mismatch == result = "Err" /\ error = "ValueType"
    IN (TypeFamily(f) # "none" /\ f.value.tag # "None")
         => /\ (ValueFamily(f.value) = TypeFamily(f) <=> ~mismatch)
            /\ (/\ f.field_type = "Signed"
                /\ f.length \in 1..U64Bits
                /\ ValueFamily(f.value) = "integer"
                /\ f.value.v >= 0
                /\ f.value.v <= 2^(f.length - 1) - 1) => result = "Ok"

\* the violation the specification finds in field i, or "None": a Set without
\* contains, a default value of another family than the type, a default value
\* out of the type's range, an end address beyond addressMax (all over the
\* integers; field i has been visited, or every field before it has)
Violation(i) ==
  LET f == fields[i]
      v == f.value.v
      t == f.field_type
      mine == IF f.address # None THEN f.address ELSE CursorAt(i)
  IN CASE IsSet(f) -> IF f.contains = "None" THEN "Schema" ELSE "None"
       [] ~Addressed(f) -> "None"
       [] f.value.tag # "None" /\ ValueFamily(f.value) # TypeFamily(f) -> "ValueType"
       [] t = "String" /\ f.value.tag # "None" /\ v > f.length -> "ValueRange"
       [] t = "Unsigned" /\ f.value.tag # "None" /\ (v < 0 \/ v > 2^f.length - 1) ->
            "ValueRange"
       [] t = "Signed" /\ f.value.tag # "None"
            /\ (v < -(2^(f.length - 1)) \/ v > 2^(f.length - 1) - 1) -> "ValueRange"
       [] t = "UFixed" /\ f.value.tag # "None"
            /\ v > powf_scaled(f.high) - powf_scaled(f.low) -> "ValueRange"
       [] mine + Footprint(f, protocol) > protocol.address_max -> "AddressOverflow"
       [] OTHER -> "None"

Violating == {i \in Fields : Violation(i) # "None"}
FirstViolating == CHOOSE i \in Violating : \A j \in Violating : i <= j

\* C9: a violation anywhere in the tree makes render return an error, that of
\* the first violating field in pre-order; the leaves visited before that
\* field keep the address and access written into them, and no field after it
\* is modified.
C9_FirstErrorPreOrder ==
  Finished =>
    /\ (result = "Err" => Violating # {})
    /\ (Violating # {} =>
          /\ result = "Err"
          /\ pc = FirstViolating
          /\ error = Violation(FirstViolating)
          /\ \A i \in 1..(pc - 1) :
               Addressed(fields[i])
                 => fields[i].address # None /\ fields[i].access # NoAccess
          /\ \A i \in (pc + 1)..Len(fields) : fields[i] = before[i])

\* C10: when render succeeded on a document and is called again on the
\* mutated document with the same protocol, the second call succeeds too and
\* leaves every field's address and access as the first call left them.
C10_RerenderReproduces ==
  (previous = "Ok" /\ result # "Running") =>
    /\ result = "Ok"
    /\ \A i \in Fields :
         /\ fields[i].address = before[i].address
         /\ fields[i].access = before[i].access

\* a second render has succeeded on a Set of two leaves, the second placed
\* where the first ends
C10_Witness ==
  /\ previous = "Ok"
  /\ result = "Ok"
  /\ renders = 2
  /\ Len(fields) = 3
  /\ Len(log) = 2
  /\ log[2].my_address = log[1].my_address + log[1].bytes
  /\ log[2].my_address # 4

\* the cursor as the k-th leaf visit of the current render left it: the
\* cursor the next leaf visit found, or the cursor now
CursorAfter(k) == IF k < Len(log) THEN log[k + 1].cursor ELSE running_address

\* C11: after a leaf with explicit address A and footprint F (the bytes its
\* routine computed) is processed successfully the cursor is A + F, whatever
\* it was before, and the next leaf processed that has no explicit address
\* is placed at A + F.
C11_CursorFollowsExplicit ==
  \A k \in 1..Len(log) :
    (log[k].result = "Ok" /\ before[log[k].idx].address # None) =>
      LET end == before[log[k].idx].address + log[k].bytes
      IN /\ CursorAfter(k) = end
         /\ (k < Len(log) /\ before[log[k + 1].idx].address = None)
              => log[k + 1].my_address = end

\* C13: after a successful render, when a Set (the root or a nested one) had
\* an explicit address S and its first child had none, the child is placed at
\* S.  Stated of a first child that a leaf routine visits, the only fields
\* whose address render writes.
C13_FirstChildAtSetAddress ==
  result = "Ok" =>
    \A i \in 1..(Len(fields) - 1) :
      (/\ IsSet(fields[i])
       /\ before[i].address # None
       /\ fields[i + 1].depth = fields[i].depth + 1
       /\ Addressed(fields[i + 1])
       /\ before[i + 1].address = None)
        => fields[i + 1].address = before[i].address

RECURSIVE HexValue(_)
\* the number a sequence of hex digits writes, over the integers
HexValue(digits) ==
  IF digits = <<>> THEN 0
  ELSE HexValue(SubSeq(digits, 1, Len(digits) - 1)) * 16
       + to_digit(digits[Len(digits)])

\* the inputs the specification accepts: a non-negative integer, or "0x"
\* followed by hex digits and '_' separators, with a digit, fitting in u64
HexAccepted(inp) ==
  IF inp.kind \in {"i64", "u64"} THEN inp.n >= 0
  ELSE LET body == SubSeq(inp.s, 3, Len(inp.s))
           digits == SelectSeq(body, LAMBDA c : c # "_")
       IN /\ Len(inp.s) >= 2 /\ inp.s[1] = "0" /\ inp.s[2] = "x"
          /\ \A i \in 1..Len(body) : body[i] \in HexDigits \cup {"_"}
          /\ digits # <<>>
          /\ HexValue(digits) <= U64Max

HexNumber(inp) ==
  IF inp.kind \in {"i64", "u64"} THEN inp.n
  ELSE HexValue(SelectSeq(SubSeq(inp.s, 3, Len(inp.s)), LAMBDA c : c # "_"))

\* C12: hex_str_or_unsigned returns Ok(n) exactly for a non-negative integer
\* n and for a string "0x" followed by hex digits with optional '_'
\* separators whose value n fits in u64; every other string and every
\* negative integer is a decode error.
C12_HexOrUnsigned ==
  hex_result # NotCalled =>
    IF HexAccepted(deserializer)
      THEN hex_result = HexOk(HexNumber(deserializer))
      ELSE hex_result = HexErr

====
